---- MODULE Spec2Model ----
(***************************************************************************)
(* NADAC comparison report (src/main.py).                                  *)
(*                                                                         *)
(* The program requests a CSV file, folds its rows into a dict from        *)
(* "NDC Description" to per unit price change (parse_nadac_data) and       *)
(* prints the ten largest increases and the ten largest decreases          *)
(* (print_top_10s).                                                        *)
(*                                                                         *)
(* A CSV row is the list of fields csv.reader yields, a sequence of        *)
(* strings.  A Decimal is the integer number of 0.00001 units it holds.    *)
(* A dict is the sequence of its (key, value) items in insertion order,    *)
(* the order dict.items() yields them in.                                  *)
(***************************************************************************)
EXTENDS Integers, Sequences, FiniteSets, TLC

\* ------------------------------------------------------------------ bounds

\* Rows the reader yields in one run of the program.
MaxRows == 3

\* Entries of the index handed to print_top_10s under SpecReport.
MaxEntries == 11

\* ---------------------------------------------------------------- helpers

Min(a, b) == IF a < b THEN a ELSE b

Max(a, b) == IF a > b THEN a ELSE b

\* ------------------------------------------------------------ input space

\* The literal of line 65.
HeaderLiteralTypo == "NDC"

HeaderLiteral == "NDC Description"

\* Price fields of the sample rows of lines 32-34, and their Decimal values.
DecimalLiterals ==
    ("0.02209" :> 2209) @@ ("0.02468" :> 2468)

Descriptions ==
    {"AMOXICILLIN 200 MG/5 ML SUSP", "IBUPROFEN 200 MG SOFTGEL",
     "ACETAMINOPHEN 325 MG TABLET"}


\* A row in the format of line 31.
MkRow(d, old, new, date) ==
    <<d, "00093416073", old, new, "G", "-17.76", "Survey Rate",
      "12/14/2022", "12/21/2022", date>>

HeaderRow ==
    <<"NDC Description", "NDC", "Old NADAC Per Unit", "New NADAC Per Unit",
      "Classification for Rate Setting", "Percent Change", "Primary Reason",
      "Start Date", "End Date", "Effective Date">>

\* Rows of the format of line 31: every description with every pair of prices,
\* dated in 2022, and every description once more, dated in 2021.
WellFormedRows ==
    { MkRow(d, old, new, "12/21/2022") :
        d \in Descriptions, old \in DOMAIN DecimalLiterals,
        new \in DOMAIN DecimalLiterals }
    \cup { MkRow(d, "0.02209", "0.02468", "01/05/2021") : d \in Descriptions }

\* Rows that are not what line 31 describes.
OddRows ==
    LET d == "ACETAMINOPHEN 325 MG TABLET"
        good == MkRow(d, "0.02468", "0.02209", "12/21/2022")
    IN  { <<>>,                                          \* a blank line
          <<"NDC Description">>,                         \* a header cut short
          SubSeq(good, 1, 2),                            \* no old price
          SubSeq(good, 1, 3),                            \* no new price
          SubSeq(good, 1, 4),                            \* too few fields
          Append(good, "extra"),                         \* too many fields
          MkRow(d, "N/A", "0.02209", "12/21/2022"),      \* non-numeric old
          MkRow(d, "0.02468", "N/A", "12/21/2022"),      \* non-numeric new
          MkRow(d, "0.02468", "0.02209", "soon") }       \* unparseable date

Rows == WellFormedRows \cup {HeaderRow} \cup OddRows

\* Status codes of the response; requests.get returns the response whatever
\* its status.
StatusCodes == {200, 404}

\* ---------------------------------------------------------------- Decimal

\* Decimal(s) raises InvalidOperation unless s is a decimal literal.
IsDecimal(s) == s \in DOMAIN DecimalLiterals

Decimal(s) == DecimalLiterals[s]

\* ------------------------------------------------------------------- dict

DictKeys(d) == { d[i][1] : i \in 1..Len(d) }

DictGet(d, k) == LET i == CHOOSE i \in 1..Len(d) : d[i][1] = k IN d[i][2]

\* dict.setdefault: an existing key keeps its value.
DictSetDefault(d, k, v) ==
    IF k \in DictKeys(d) THEN d ELSE Append(d, <<k, v>>)

\* data.update({k: v}): an existing key keeps its position and takes the new
\* value; a new key is appended.
DictUpdate(d, k, v) ==
    IF k \in DictKeys(d)
    THEN [i \in 1..Len(d) |-> IF d[i][1] = k THEN <<k, v>> ELSE d[i]]
    ELSE Append(d, <<k, v>>)

\* ------------------------------------------------------------------ state

VARIABLES
    pc,         \* "start", "loading", "loaded", "done" or "raised"
    status,     \* status code of the response, 0 before there is one
    consumed,   \* the rows the reader has yielded so far
    data,       \* the dict of parse_nadac_data, then of __main__
    err,        \* the exception that ended the run, or "none"
    output      \* the lines printed

vars == <<pc, status, consumed, data, err, output>>

\* --------------------------------------------------------------- the loader

\* Line 65 compared another column.
IsHeaderSecondField(row) == Len(row) >= 2 /\ row[2] = HeaderLiteral

\* Line 65, once row[0] exists.
IsHeader(row) == row[1] = HeaderLiteral

\* The body of the loop of lines 63-75 on one row: the exception it raises
\* ("none" when it raises none) and the dict after it.
ProcessRow(d, row) ==
    IF Len(row) < 1 THEN [err |-> "IndexError", data |-> d]             \* row[0]
    ELSE IF IsHeader(row) THEN [err |-> "none", data |-> d]             \* continue
    ELSE IF Len(row) < 3 THEN [err |-> "IndexError", data |-> d]        \* row[2]
    ELSE IF ~IsDecimal(row[3]) THEN [err |-> "InvalidOperation", data |-> d]
    ELSE IF Len(row) < 4 THEN [err |-> "IndexError", data |-> d]        \* row[3]
    ELSE IF ~IsDecimal(row[4]) THEN [err |-> "InvalidOperation", data |-> d]
    ELSE LET description == row[1]
             old_nadac == Decimal(row[3])
             new_nadac == Decimal(row[4])
             unit_price_change == new_nadac - old_nadac
         IN  [err |-> "none", data |-> DictUpdate(d, description, unit_price_change)]

\* ------------------------------------------------------- the report builder

\* format_dollar_amount: the sign prefix and the digits printed after it.
format_dollar_amount(amount) ==
    IF amount < 0 THEN <<"-$", -amount>> ELSE <<"$", amount>>

RECURSIVE InsertDescending(_, _)
\* item put after every element whose price change is >= its own.
InsertDescending(s, item) ==
    IF s = <<>> THEN <<item>>
    ELSE IF Head(s)[2] >= item[2]
         THEN <<Head(s)>> \o InsertDescending(Tail(s), item)
         ELSE <<item>> \o s

RECURSIVE InsertAscending(_, _)
InsertAscending(s, item) ==
    IF s = <<>> THEN <<item>>
    ELSE IF Head(s)[2] <= item[2]
         THEN <<Head(s)>> \o InsertAscending(Tail(s), item)
         ELSE <<item>> \o s

RECURSIVE SortAscending(_)
SortAscending(items) ==
    IF items = <<>> THEN <<>>
    ELSE InsertAscending(SortAscending(SubSeq(items, 1, Len(items) - 1)),
                         items[Len(items)])

Reversed(s) == [i \in 1..Len(s) |-> s[Len(s) + 1 - i]]

\* sorted(items, key=...)[::-1]: descending, equal keys in reverse order.
SortedThenReversed(items) == Reversed(SortAscending(items))

RECURSIVE SortedByPriceChange(_)
\* sorted(data.items(), key=lambda x: x[1], reverse=True): descending and
\* stable, equal keys keep the order they have in items.
SortedByPriceChange(items) ==
    IF items = <<>> THEN <<>>
    ELSE InsertDescending(SortedByPriceChange(SubSeq(items, 1, Len(items) - 1)),
                          items[Len(items)])

\* The 10 of the slices of lines 83 and 84.
TopN == 10

\* s[:9]
FirstNine(s) == SubSeq(s, 1, Min(TopN - 1, Len(s)))

\* data_by_price_change[:10]
Top10Increases(s) == SubSeq(s, 1, Min(TopN, Len(s)))

\* data_by_price_change[-10:]
Top10Decreases(s) == SubSeq(s, Max(1, Len(s) - TopN + 1), Len(s))

TitleLine(text) == [kind |-> "title", text |-> text]

EntryLine(item) ==
    [kind |-> "entry", amount |-> format_dollar_amount(item[2]),
     description |-> item[1]]

EntryLines(items) == [i \in 1..Len(items) |-> EntryLine(items[i])]

\* The lines print_top_10s prints, in order.
ReportLines(d) ==
    LET data_by_price_change == SortedByPriceChange(d)
        top_10_increases == Top10Increases(data_by_price_change)
        top_10_decreases == Top10Decreases(data_by_price_change)
    IN  <<TitleLine("Top 10 NADAC per unit price increases of 2023:")>>
        \o EntryLines(top_10_increases)
        \o <<TitleLine("\nTop 10 NADAC per unit price decreases of 2023:")>>
        \o EntryLines(top_10_decreases)

\* ---------------------------------------------------------------- actions

Init ==
    /\ pc = "start"
    /\ status = 0
    /\ consumed = <<>>
    /\ data = <<>>
    /\ err = "none"
    /\ output = <<>>

\* requests.get returns a response, of any status; data = {}.
Get ==
    /\ pc = "start"
    /\ \E code \in StatusCodes : status' = code
    /\ pc' = "loading"
    /\ data' = <<>>
    /\ UNCHANGED <<consumed, err, output>>

\* requests.get raises: no connection.
GetFails ==
    /\ pc = "start"
    /\ pc' = "raised"
    /\ err' = "ConnectionError"
    /\ UNCHANGED <<status, consumed, data, output>>

\* The reader yields one more row and the loop body runs on it.
ReadRow ==
    /\ pc = "loading"
    /\ Len(consumed) < MaxRows
    /\ \E row \in Rows :
         LET r == ProcessRow(data, row)
         IN  /\ consumed' = Append(consumed, row)
             /\ data' = r.data
             /\ err' = r.err
             /\ pc' = IF r.err = "none" THEN "loading" ELSE "raised"
    /\ UNCHANGED <<status, output>>

\* iter_lines raises: the connection breaks while the body is read.
StreamBreaks ==
    /\ pc = "loading"
    /\ pc' = "raised"
    /\ err' = "ConnectionError"
    /\ UNCHANGED <<status, consumed, data, output>>

\* The stream is exhausted: parse_nadac_data returns data.
EndOfStream ==
    /\ pc = "loading"
    /\ pc' = "loaded"
    /\ UNCHANGED <<status, consumed, data, err, output>>

\* print_top_10s(data)
PrintTop10s ==
    /\ pc = "loaded"
    /\ output' = ReportLines(data)
    /\ pc' = "done"
    /\ UNCHANGED <<status, consumed, data, err>>

Next ==
    \/ Get
    \/ GetFails
    \/ ReadRow
    \/ StreamBreaks
    \/ EndOfStream
    \/ PrintTop10s

Spec == Init /\ [][Next]_vars

\* ------------------------------------------- print_top_10s as a function

DrugNames ==
    <<"D01", "D02", "D03", "D04", "D05", "D06", "D07", "D08", "D09", "D10",
      "D11", "D12", "D13">>

PriceChanges == {-259, 0, 259}

\* Every dict of at most MaxEntries entries over PriceChanges: each is the
\* dict parse_nadac_data returns for the rows that list its items in order.
InitReport ==
    /\ pc = "loaded"
    /\ status = 200
    /\ consumed = <<>>
    /\ \E n \in 0..MaxEntries :
         \E f \in [1..n -> PriceChanges] :
            data = [i \in 1..n |-> <<DrugNames[i], f[i]>>]
    /\ err = "none"
    /\ output = <<>>

NextReport == PrintTop10s

SpecReport == InitReport /\ [][NextReport]_vars

\* ------------------------------------------------- reading the state back

\* The year of an effective date in MM/DD/YYYY; other strings are no dates.
DateYears == ("12/21/2022" :> 2022) @@ ("01/05/2021" :> 2021)

\* The year of the report (line 5).
TargetYear == 2022

IsHeaderRow(row) == Len(row) >= 1 /\ row[1] = "NDC Description"

\* Positions in consumed of the rows that are not header rows.
DataRowPositions == { j \in 1..Len(consumed) : ~IsHeaderRow(consumed[j]) }

RowDescription(row) == row[1]

RowPriceChange(row) == DecimalLiterals[row[4]] - DecimalLiterals[row[3]]

\* A data row that is not what the format of line 31 allows.
Malformed(row) ==
    /\ ~IsHeaderRow(row)
    /\ \/ Len(row) # 10
       \/ row[3] \notin DOMAIN DecimalLiterals
       \/ row[4] \notin DOMAIN DecimalLiterals
       \/ row[10] \notin DOMAIN DateYears

InTargetYear(row) ==
    /\ Len(row) >= 10
    /\ row[10] \in DOMAIN DateYears
    /\ DateYears[row[10]] = TargetYear

\* The loop has run on every consumed row without raising.
LoaderAlive == pc \in {"loading", "loaded", "done"}

\* The printed position of the second title, and the two sections.
SecondTitle ==
    CHOOSE i \in 2..Len(output) : output[i].kind = "title"

IncreasesSection == SubSeq(output, 2, SecondTitle - 1)

DecreasesSection == SubSeq(output, SecondTitle + 1, Len(output))

\* The price change a printed entry line shows.
LineDelta(line) ==
    IF line.amount[1] = "-$" THEN 0 - line.amount[2] ELSE line.amount[2]

SectionDescriptions(sec) == { sec[i].description : i \in 1..Len(sec) }

\* Every line of the section is the index entry of its description.
FromIndex(sec) ==
    \A i \in 1..Len(sec) :
        /\ sec[i].kind = "entry"
        /\ sec[i].description \in DictKeys(data)
        /\ LineDelta(sec[i]) = DictGet(data, sec[i].description)

NoRepeats(sec) ==
    \A i, j \in 1..Len(sec) : sec[i].description = sec[j].description => i = j

\* ------------------------------------------------------------------- claims

\* C1: the decreases section holds the min(10, n) entries with the smallest
\* deltas and lists them in ascending delta order, the most negative first.
C1_DecreasesAscending ==
    pc = "done" =>
        LET dec == DecreasesSection
        IN  /\ Len(dec) = Min(10, Len(data))
            /\ FromIndex(dec)
            /\ NoRepeats(dec)
            /\ \A i \in 1..Len(data) :
                  data[i][1] \notin SectionDescriptions(dec) =>
                      \A k \in 1..Len(dec) : LineDelta(dec[k]) <= data[i][2]
            /\ \A k \in 1..(Len(dec) - 1) : LineDelta(dec[k]) <= LineDelta(dec[k + 1])

\* C2: after any sequence of rows of the format of line 31, the index contains
\* a description only if some row with that description is dated in the target
\* year, and its delta is that of such a row.
C2_YearFilter ==
    (LoaderAlive /\ \A j \in 1..Len(consumed) : ~Malformed(consumed[j])) =>
        \A i \in 1..Len(data) :
            \E j \in DataRowPositions :
                /\ InTargetYear(consumed[j])
                /\ RowDescription(consumed[j]) = data[i][1]
                /\ RowPriceChange(consumed[j]) = data[i][2]

\* C3: after any prefix of the rows the index holds one entry per distinct
\* description of a data row, and its value is new - old of the last data row
\* with that description.
C3_LastWriteWins ==
    LoaderAlive =>
        /\ \A i, j \in 1..Len(data) : data[i][1] = data[j][1] => i = j
        /\ DictKeys(data) = { RowDescription(consumed[j]) : j \in DataRowPositions }
        /\ \A i \in 1..Len(data) :
              LET same == { j \in DataRowPositions :
                              RowDescription(consumed[j]) = data[i][1] }
                  last == CHOOSE j \in same : \A k \in same : k <= j
              IN  data[i][2] = RowPriceChange(consumed[last])

\* Two data rows with one description and different price changes were loaded.
C3_Witness ==
    /\ pc = "loaded"
    /\ \E j, k \in DataRowPositions :
          /\ j < k
          /\ RowDescription(consumed[j]) = RowDescription(consumed[k])
          /\ RowPriceChange(consumed[j]) # RowPriceChange(consumed[k])

\* C4: the increases section has min(10, n) lines in non-increasing delta
\* order, and no entry left out has a delta above that of a listed entry.
C4_IncreasesTop ==
    pc = "done" =>
        LET inc == IncreasesSection
        IN  /\ Len(inc) = Min(10, Len(data))
            /\ FromIndex(inc)
            /\ NoRepeats(inc)
            /\ \A k \in 1..(Len(inc) - 1) : LineDelta(inc[k]) >= LineDelta(inc[k + 1])
            /\ \A i \in 1..Len(data) :
                  data[i][1] \notin SectionDescriptions(inc) =>
                      \A k \in 1..Len(inc) : data[i][2] <= LineDelta(inc[k])

\* An index of more than ten entries of different deltas was printed.
C4_Witness ==
    /\ pc = "done"
    /\ Len(data) > 10
    /\ Len(IncreasesSection) = 10
    /\ \E i, j \in 1..Len(data) : data[i][2] < data[j][2]

\* A run in which a fatal condition holds: an exception, a response of
\* non-success status, or a malformed row in the stream.
FatalCondition ==
    \/ err # "none"
    \/ status # 0 /\ status \notin 200..299
    \/ \E j \in 1..Len(consumed) : Malformed(consumed[j])

\* C5: in a run in which a fatal error occurs nothing is printed, neither a
\* section title nor an entry line.
C5_NoReportOnFatal == FatalCondition => output = <<>>

\* What the code does ensure: a run that ended in an exception printed nothing.
RaisedPrintsNothing == (pc = "raised" \/ err # "none") => output = <<>>

\* C6: loading stops with an error at a malformed row (wrong column count,
\* non-numeric price, unparseable date); none is accepted into the index.
C6_FailFast ==
    \A j \in 1..Len(consumed) :
        Malformed(consumed[j]) =>
            /\ j = Len(consumed)
            /\ pc = "raised"
            /\ err \in {"IndexError", "InvalidOperation"}

\* C7: a response of non-success status makes the loader signal an error; its
\* body is never parsed as rows and adds nothing to the index.
C7_NonSuccessStatus ==
    (status # 0 /\ status \notin 200..299) =>
        /\ pc = "raised"
        /\ consumed = <<>>
        /\ data = <<>>

\* C8: a row whose first field is "NDC Description" leaves the index as it
\* was, wherever it occurs, and raises no parse error.
C8_HeaderRowLeavesIndex ==
    [][(/\ Len(consumed') = Len(consumed) + 1
        /\ IsHeaderRow(consumed'[Len(consumed')]))
       => (data' = data /\ err' = "none" /\ pc' = "loading")]_vars

\* A header row was read after data rows had filled the index.
C8_Witness ==
    /\ pc = "loading"
    /\ Len(consumed) >= 2
    /\ IsHeaderRow(consumed[Len(consumed)])
    /\ Len(consumed[Len(consumed)]) = 10
    /\ data # <<>>

NoDataRows == \A j \in 1..Len(consumed) : IsHeaderRow(consumed[j])

\* C9: on a stream with no data rows the loader raises nothing and returns an
\* empty index, and the report has no entry line in either section.
C9_EmptyStream ==
    NoDataRows =>
        /\ err \in {"none", "ConnectionError"}
        /\ data = <<>>
        /\ pc \in {"loaded", "done"} => err = "none"
        /\ pc = "done" =>
              /\ Len(output) = 2
              /\ IncreasesSection = <<>>
              /\ DecreasesSection = <<>>

\* The report of a stream that held a header row and nothing else.
C9_Witness ==
    /\ pc = "done"
    /\ consumed = <<HeaderRow>>
    /\ Len(output) = 2

\* The position of the first data row with description d.
FirstSeen(d) ==
    CHOOSE j \in DataRowPositions :
        /\ RowDescription(consumed[j]) = d
        /\ \A k \in DataRowPositions : RowDescription(consumed[k]) = d => j <= k

\* C10: of two index entries with equal delta, the one whose description was
\* first met earlier in the input is printed earlier in the increases section.
C10_StableTies ==
    pc = "done" =>
        LET inc == IncreasesSection
        IN  \A a, b \in 1..Len(data) :
                (/\ data[a][2] = data[b][2]
                 /\ FirstSeen(data[a][1]) < FirstSeen(data[b][1]))
                => \A q \in 1..Len(inc) :
                       inc[q].description = data[b][1] =>
                           \E p \in 1..(q - 1) : inc[p].description = data[a][1]

\* Two entries tie after the first met of them was overwritten by a later row.
C10_Witness ==
    /\ pc = "done"
    /\ Len(consumed) = 3
    /\ Len(data) = 2
    /\ data[1][2] = data[2][2]
    /\ RowDescription(consumed[1]) = RowDescription(consumed[3])
    /\ RowPriceChange(consumed[1]) # RowPriceChange(consumed[3])
    /\ Len(IncreasesSection) = 2

====
